---- MODULE Spec2Model ----
(***************************************************************************)
(* Model of bcbio/structural/purecn.py and bcbio/variation/ensemble.py:    *)
(* the overlap removal of normalized bins, the batch grouping of samples,  *)
(* the per-caller organisation of variant files and the file-system        *)
(* protocol (up-to-date checks, transactions, direct writes) of the stages *)
(* that produce artifacts.                                                 *)
(*                                                                         *)
(* Six specifications share the module, one per component; each keeps the  *)
(* variables of the other components at their idle values:                 *)
(*   SpecOverlap  _remove_overlaps, line by line                           *)
(*   SpecGroup    _group_by_batches, sample by sample                      *)
(*   SpecMerge    _organize_variants, call result by call result           *)
(*   SpecStage    the stages against a file system with modification times *)
(*   SpecParallel combine_calls_parallel and its concurrent batch tasks    *)
(*   SpecCombine  combine_calls of two batches: paths written, tools run   *)
(***************************************************************************)
EXTENDS Integers, Sequences, FiniteSets, TLC

\* ---------------------------------------------------------------- bounds
\* longest input of the overlap removal
MaxLen == 3
\* largest coordinate of an enumerated interval record
MaxCoord == 3
\* most samples handed to the batch grouping
MaxSamples == 3
\* most member samples of a batch
MaxMembers == 2
\* latest time of the file system: inputs can be touched MaxClock - 1 times
MaxClock == 3

VARIABLES
  \* _remove_overlaps
  in_lines,    \* the records of in_file, in file order
  ro_pos,      \* how many lines the for loop has consumed
  prev_line,   \* the local prev_line
  tx_lines,    \* what has been written to tx_out_file
  out_file,    \* out_file: whether it exists and its lines
  ro_pc,       \* "off" | "start" | "loop" | "written" | "done" | "error"
  \* _group_by_batches
  samples,      \* the argument samples: the data of each [data] item
  gb_pos,       \* how many samples the for loop has consumed
  batch_groups, \* the defaultdict: key -> list of sample indices (<<>>: no key)
  extras,       \* the list extras, as sample indices
  gb_pc,        \* "off" | "loop" | "done" | "abort"
  \* _organize_variants
  members,       \* the argument samples: the batch's member samples
  caller_names,  \* the list caller_names
  calls,         \* the defaultdict calls: caller -> list of file references
  vrn_file_temp, \* the local vrn_file_temp (Unbound until first assigned)
  ov_s,          \* the member the outer loop is at
  ov_e,          \* the call result the inner loop is at
  ov_c,          \* how many caller names the second loop has consumed
  vrn_files,     \* the list vrn_files
  selects,       \* the calls of vcfutils.select_sample, in order
  merges,        \* the calls of population.get_multisample_vcf, in order
  ov_pc,         \* "off" | "start" | "collect" | "assemble" | "done" | "error"
  \* the stages and the file system
  stage,      \* the function the behaviour calls again and again
  fs,         \* path -> [state: "absent" | "partial" | "ok" | "link", mtime]
  written,    \* the output paths the running stage has written to
  clock,      \* the time of the file system
  st_pc,      \* where the running call is ("idle": between two calls)
  tx_out,     \* the path the open file_transaction publishes to ("": none)
  tx,         \* the transaction's temporary file: "none" | "empty" | "partial" | "complete"
  tx_files,   \* the files PureCN.R left in the transaction directory
  moved,      \* how many of all_files _run_purecn has moved
  checked,    \* the output whose up-to-date test the call made last ("": none)
  decision,   \* what that test decided: "none" | "skip" | "produce"
  fresh,      \* the last call succeeded and no input was touched since
  \* combine_calls_parallel and the combine_calls tasks it starts
  heap,         \* the dictionaries: object -> its contents (samples first)
  task,         \* batch_id -> "none" | "queued" | "running" | "returned" | "failed"
  edata,        \* batch_id -> the object edata of the batch's task (0: none)
  out_vcf_file, \* batch_id -> "absent" | "partial" | "ok": the file at out_vcf_file
  processed,    \* what run_parallel returns: [batch_id, callinfo] items
  cp_pos,       \* how many items of processed the for loop has consumed
  cp_out,       \* the list out, as sample objects
  cp_pc,        \* "off" | "group" | "wait" | "attach" | "done" | "raised"
  \* combine_calls of two batches, with what each call writes and runs
  cc_samples,   \* batch_id -> the argument samples of the batch's call
  cc_pc,        \* batch_id -> "off" | "start" | "organize" | "check" | "strategy" | "done"
  writes,       \* batch_id -> the paths the call has written
  procs,        \* batch_id -> the external processes the call has run, in order
  cc_callinfo   \* batch_id -> the callinfo the call returned (NoCallinfo: none yet)

overlapVars == <<in_lines, ro_pos, prev_line, tx_lines, out_file, ro_pc>>

groupVars == <<samples, gb_pos, batch_groups, extras, gb_pc>>

mergeVars == <<members, caller_names, calls, vrn_file_temp, ov_s, ov_e, ov_c,
               vrn_files, selects, merges, ov_pc>>

stageVars == <<stage, fs, written, clock, st_pc, tx_out, tx, tx_files, moved,
               checked, decision, fresh>>

parallelVars == <<heap, task, edata, out_vcf_file, processed, cp_pos, cp_out, cp_pc>>

combineVars == <<cc_samples, cc_pc, writes, procs, cc_callinfo>>

vars == <<overlapVars, groupVars, mergeVars, stageVars, parallelVars, combineVars>>

\* ------------------------------------------------------ _remove_overlaps
Chroms == <<"chr1", "chr2">>

ChromSet == {Chroms[i] : i \in 1..Len(Chroms)}

\* the first three tab-separated fields of a line, start and end as int()
Records == {r \in [chrom : ChromSet, start : 1..MaxCoord, end : 1..MaxCoord] :
              r.start <= r.end}

SeqsUpTo(S, n) == UNION {[1..k -> S] : k \in 0..n}

Rec(c, s, e) == [chrom |-> c, start |-> s, end |-> e]

\* prev_line = None (purecn.py:142), as a record no line of a file equals
None == Rec("None", 0, 0)

\* a path with nothing at it
NoFile == [exists |-> FALSE, lines |-> <<>>]

File(ls) == [exists |-> TRUE, lines |-> ls]

\* the input of the specification's worked example
ExampleInput == <<Rec("chr1", 100, 200), Rec("chr1", 150, 300), Rec("chr1", 300, 400)>>

ExampleOutput == <<Rec("chr1", 150, 300), Rec("chr1", 300, 400)>>

\* mutant: the start of the previous record is compared instead of its end
OverlapsNextStart(p, c) == p.chrom = c.chrom /\ p.start > c.start

\* mutant: the chromosome is not compared
OverlapsNextAnyChrom(p, c) == p.end > c.start

\* purecn.py:148  pchrom == cchrom and int(pend) > int(cstart)
OverlapsNext(p, c) == p.chrom = c.chrom /\ p.end > c.start

OverlapIdle ==
  /\ in_lines = <<>>
  /\ ro_pos = 0
  /\ prev_line = None
  /\ tx_lines = <<>>
  /\ out_file = NoFile
  /\ ro_pc = "off"

\* ------------------------------------------------------ _group_by_batches
\* data["name"][-1] of the enumerated samples
SampleNames == {"C", "fam1"}

\* data["metadata"]["batch"] of the enumerated samples
BatchTags == {"fam1", "fam2"}

\* no metadata, no batch entry or an empty one: "if batch:" is false
NoBatch == ""

\* a sample, as far as _group_by_batches reads it: its name, its batch and
\* what check_fn returns for it
Sample(n, b, q) == [name |-> n, batch |-> b, ok |-> q]

SampleRecs == [name : SampleNames, batch : BatchTags \cup {NoBatch}, ok : BOOLEAN]

\* the specification's worked example: A and B tagged fam1, C untagged
ExampleSamples == <<Sample("A", "fam1", TRUE), Sample("B", "fam1", TRUE),
                    Sample("C", NoBatch, TRUE)>>

Keys == SampleNames \cup BatchTags \cup {"A", "B"}

\* collections.defaultdict(list) with no key
NoGroups == [k \in Keys |-> <<>>]

GroupIdle ==
  /\ samples = <<>>
  /\ gb_pos = 0
  /\ batch_groups = NoGroups
  /\ extras = <<>>
  /\ gb_pc = "off"

\* ----------------------------------------------------- _organize_variants
Callers == {"A", "B", "C"}

\* the variantcaller lists of the enumerated samples: two orders of the same
\* callers, and a list that shares only one caller with them
CallerLists == {<<"A", "B">>, <<"B", "A">>, <<"A", "C">>}

\* vrn["vrn_file"]: None, a name that contains ".vcf", a name that does not
FileForms == {"none", "vcf", "bcf"}

\* data["metadata"]["phenotype"]; "" stands for no metadata or no phenotype
Phenotypes == {"", "normal", "tumor"}

\* a file reference: whose call result its content comes from (owner), whose
\* file name its name derives from (base) and how often the suffix
\* "_tumorOnly_noFilteredCalls.vcf.gz" was appended to that name (app)
FileRef(k, o, b, a, c) == [kind |-> k, owner |-> o, base |-> b, app |-> a, caller |-> c]

NoneRef == FileRef("none", <<0, 0>>, <<0, 0>>, 0, "")

Unbound == FileRef("unbound", <<0, 0>>, <<0, 0>>, 0, "")

\* the file a call result names
Raw(s, e) == FileRef("raw", <<s, e>>, <<s, e>>, 0, "")

\* ensemble.py:103, first branch: ".vcf" replaced in the file's own name
Replaced(f) == [f EXCEPT !.kind = "filtered"]

\* ensemble.py:103, second branch: the suffix appended to vrn_file_temp
Appended(temp, f) == FileRef("filtered", f.owner, temp.base, temp.app + 1, "")

\* the name population.get_multisample_vcf returns for a caller of the batch
Merged(c) == FileRef("merged", <<0, 0>>, <<0, 0>>, 0, c)

\* ensemble.py:69-70, for a sample with ensemble configured
has_ensemble(data) ==
  /\ Len(data.variants) > 1
  /\ \E i \in 1..Len(data.variants) : data.variants[i].form # "none"

\* the form of a file name is read for tumor samples only (ensemble.py:102-103)
MemberRecs ==
  {d \in [pheno : Phenotypes,
          variants : UNION {{[i \in 1..Len(cl) |-> [variantcaller |-> cl[i], form |-> fm[i]]] :
                               fm \in [1..Len(cl) -> FileForms]} : cl \in CallerLists}] :
     /\ has_ensemble(d)
     /\ d.pheno # "tumor" => \A i \in 1..Len(d.variants) : d.variants[i].form # "bcf"}

NoCalls == [c \in Callers |-> <<>>]

MergeIdle ==
  /\ members = <<>>
  /\ caller_names = <<>>
  /\ calls = NoCalls
  /\ vrn_file_temp = Unbound
  /\ ov_s = 0
  /\ ov_e = 0
  /\ ov_c = 0
  /\ vrn_files = <<>>
  /\ selects = <<>>
  /\ merges = <<>>
  /\ ov_pc = "off"

\* ------------------------------------------------- stages and file system
\* _remove_overlaps: in_file, out_file
BinsBed == "bins.bed"

NoOverlapsBed == "bins-nooverlaps.bed"

\* _segment_normalized_gatk: seg_file, std_seg_file, cnr_file, std_cnr_file
CrSeg == "tumor.cr.seg"

StdSeg == "tumor.seg"

DenoisedCnr == "tumor.denoisedCR.tsv"

StdCnr == "tumor.cnr"

\* _run_purecn: cnr_file of the tumor, seg_file and vcf_file
NormalizedBins == "normalized.cnr"

SegFile == "purecn-input.seg"

FilteredVcf == "somatic-filterpass.vcf.gz"

\* purecn.py:162-174, all_files in the order it is built
PureCNFiles == <<"tumor-purecn_chromosomes.pdf", "tumor-purecn_local_optima.pdf",
                 "tumor-purecn_segmentation.pdf", "tumor-purecn.pdf",
                 "tumor-purecn.csv", "tumor-purecn_dnacopy.seg",
                 "tumor-purecn_genes.csv", "tumor-purecn.log",
                 "tumor-purecn_loh.csv", "tumor-purecn.rds",
                 "tumor-purecn_variants.csv">>

PureCNFileSet == {PureCNFiles[i] : i \in 1..Len(PureCNFiles)}

\* out["rds"]
Rds == "tumor-purecn.rds"

\* _run_ensemble and _run_ensemble_w_caller: a representative file of a
\* caller, out_vcf_file, out_bed_file, the files globbed in work_dir/prep and
\* the file effects.snpeff_effects returns
VrnFile == "batch-A.vcf.gz"

EnsembleVcf == "batch-ensemble.vcf"

CallRegionsBed == "batch-callregions.bed"

CFilterVcf == "batch-ensemble-work/prep/x-cfilter.vcf"

MultiCombineBed == "batch-ensemble-work/prep/x-multicombine.bed"

EffectsVcf == "batch-ensemble-effects.vcf"

Paths == {BinsBed, NoOverlapsBed, CrSeg, StdSeg, DenoisedCnr, StdCnr,
          NormalizedBins, SegFile, FilteredVcf,
          VrnFile, EnsembleVcf, CallRegionsBed, CFilterVcf, MultiCombineBed,
          EffectsVcf} \cup PureCNFileSet

Stages == {"_remove_overlaps", "_segment_normalized_gatk", "_run_purecn",
           "_run_ensemble", "_run_ensemble_w_caller"}

\* the files a stage reads, which the steps before it write
InputsOf(st) ==
  CASE st = "_remove_overlaps" -> {BinsBed}
    [] st = "_segment_normalized_gatk" -> {CrSeg, DenoisedCnr}
    [] st = "_run_purecn" -> {NormalizedBins, SegFile, FilteredVcf}
    [] st = "_run_ensemble" -> {VrnFile}
    [] st = "_run_ensemble_w_caller" -> {VrnFile}
    [] OTHER -> {}

Absent == [state |-> "absent", mtime |-> 0]

Written(t) == [state |-> "ok", mtime |-> t]

Partial(t) == [state |-> "partial", mtime |-> t]

\* utils.symlink_plus: a link at the output path to a file of time t
Linked(t) == [state |-> "link", mtime |-> t]

\* utils.file_exists: the path exists and is not empty
file_exists(f, p) == f[p].state # "absent"

\* utils.file_uptodate: fname exists and is not older than cmp_fname
file_uptodate(f, fname, cmp_fname) ==
  /\ file_exists(f, fname)
  /\ file_exists(f, cmp_fname)
  /\ f[fname].mtime >= f[cmp_fname].mtime

\* bed_file = None in the returned dictionary
NullRef == ""

\* mutant: out_bed_file is returned without the test of os.path.exists
BedAlways(f) == CallRegionsBed

\* ensemble.py:151  out_bed_file if os.path.exists(out_bed_file) else None
BedIfExists(f) == IF f[CallRegionsBed].state # "absent" THEN CallRegionsBed ELSE NullRef

\* ensemble.py:149-151 and 185-187: the dictionary the strategy st returns
\* when the file system is f
callinfo(st, f) ==
  [variantcaller |-> "ensemble",
   vrn_file |-> IF st = "_run_ensemble" THEN EnsembleVcf ELSE EffectsVcf,
   bed_file |-> IF st = "_run_ensemble" THEN BedIfExists(f) ELSE NullRef]

\* effects.snpeff_effects: the annotated file is written at time t unless it
\* is up to date with the file it annotates
snpeff_effects(f, t) ==
  IF file_uptodate(f, EffectsVcf, EnsembleVcf)
    THEN f
    ELSE [f EXCEPT ![EffectsVcf] = Written(t)]

StageIdle ==
  /\ stage = "off"
  /\ fs = [p \in Paths |-> Absent]
  /\ written = {}
  /\ clock = 0
  /\ st_pc = "off"
  /\ tx_out = ""
  /\ tx = "none"
  /\ tx_files = {}
  /\ moved = 0
  /\ checked = ""
  /\ decision = "none"
  /\ fresh = FALSE

\* ------------------------------------------------ combine_calls_parallel
\* a call result of a sample, as it comes from upstream
CallResult(c, i) == [variantcaller |-> c, vrn_file |-> <<"sample", i, c>>, bed_file |-> NullRef]

\* the dictionary of the i-th sample before combine_calls_parallel: the
\* configured caller, its vrn_file, no ensemble_bed, its call results
SampleData(i) ==
  [variantcaller |-> "A",
   vrn_file |-> <<"sample", i, "A">>,
   ensemble_bed |-> NullRef,
   variants |-> <<CallResult("A", i), CallResult("B", i)>>]

\* ensemble.py:46, 136, 174: base_dir/{batch_id}-ensemble.vcf
EnsemblePath(batch_id) == <<"ensemble", batch_id, "ensemble.vcf">>

\* ensemble.py:48-50, 149-151, 185-187: the callinfo of a batch
BatchCallinfo(batch_id) ==
  [variantcaller |-> "ensemble", vrn_file |-> EnsemblePath(batch_id), bed_file |-> NullRef]

NoTasks == [k \in Keys |-> "none"]

ParallelIdle ==
  /\ heap = <<>>
  /\ task = NoTasks
  /\ edata = [k \in Keys |-> 0]
  /\ out_vcf_file = [k \in Keys |-> "absent"]
  /\ processed = <<>>
  /\ cp_pos = 0
  /\ cp_out = <<>>
  /\ cp_pc = "off"

\* ---------------------------------------------------------- combine_calls
\* the two batches whose combine_calls run side by side
BatchIds == {"b1", "b2"}

\* the names of the call files of the samples, without the caller
BaseNames == {"f1", "f2"}

\* the callers of every sample of the two batches
CombineCallers == <<"A", "B">>

\* a sample as combine_calls reads it: its phenotype, the name its call
\* files share, and whether its call files hold variant records
CombineRecs == [pheno : {"normal", "tumor"}, vrn : BaseNames, has_variants : BOOLEAN]

\* ensemble.py:27  base_dir
BaseDir(batch_id) == <<"ensemble", batch_id>>

\* ensemble.py:156-157  config_file
ConfigPath(batch_id) == <<"ensemble", batch_id, "config", "ensemble.yaml">>

\* ensemble.py:137  out_bed_file
BedPath(batch_id) == <<"ensemble", batch_id, "callregions.bed">>

\* ensemble.py:101  vrn["vrn_file"] of a sample for a caller
VrnPath(data, caller) == <<"calls", data.vrn, caller, ".vcf.gz">>

\* ensemble.py:103  vrn_file.replace(".vcf", "_tumorOnly_noFilteredCalls.vcf")
TumorOnlyPath(vrn_file) == <<vrn_file[1], vrn_file[2], vrn_file[3], "_tumorOnly_noFilteredCalls.vcf.gz">>

\* population.get_multisample_vcf: the merged file of a batch and a caller
MultisamplePath(batch_id, caller) == <<"gemini", batch_id, caller, ".vcf.gz">>

NoCallinfo == [variantcaller |-> "", vrn_file |-> NullRef, bed_file |-> NullRef]

CombineIdle ==
  /\ cc_samples = [k \in BatchIds |-> <<>>]
  /\ cc_pc = [k \in BatchIds |-> "off"]
  /\ writes = [k \in BatchIds |-> {}]
  /\ procs = [k \in BatchIds |-> <<>>]
  /\ cc_callinfo = [k \in BatchIds |-> NoCallinfo]

InitOverlap ==
  /\ GroupIdle
  /\ MergeIdle
  /\ StageIdle
  /\ ParallelIdle
  /\ CombineIdle
  /\ in_lines \in SeqsUpTo(Records, MaxLen) \cup {ExampleInput}
  /\ ro_pos = 0
  /\ prev_line = None
  /\ tx_lines = <<>>
  /\ out_file = NoFile
  /\ ro_pc = "start"

\* purecn.py:139-142: the transaction and both files are opened
RO_Open ==
  /\ ro_pc = "start"
  /\ ro_pc' = "loop"
  /\ prev_line' = None
  /\ tx_lines' = <<>>
  /\ UNCHANGED <<in_lines, ro_pos, out_file>>
  /\ UNCHANGED <<groupVars, mergeVars, stageVars, parallelVars, combineVars>>

\* purecn.py:143-152: one iteration of the for loop
RO_Line ==
  /\ ro_pc = "loop"
  /\ ro_pos < Len(in_lines)
  /\ LET line == in_lines[ro_pos + 1] IN
       /\ tx_lines' = IF prev_line # None /\ ~OverlapsNext(prev_line, line)
                        THEN Append(tx_lines, prev_line)
                        ELSE tx_lines
       /\ prev_line' = line
  /\ ro_pos' = ro_pos + 1
  /\ UNCHANGED <<in_lines, out_file, ro_pc>>
  /\ UNCHANGED <<groupVars, mergeVars, stageVars, parallelVars, combineVars>>

\* purecn.py:153: out_handle.write(prev_line); write(None) raises TypeError and
\* the transaction discards tx_out_file
RO_Last ==
  /\ ro_pc = "loop"
  /\ ro_pos = Len(in_lines)
  /\ IF prev_line = None
       THEN /\ ro_pc' = "error"
            /\ tx_lines' = <<>>
       ELSE /\ ro_pc' = "written"
            /\ tx_lines' = Append(tx_lines, prev_line)
  /\ UNCHANGED <<in_lines, ro_pos, prev_line, out_file>>
  /\ UNCHANGED <<groupVars, mergeVars, stageVars, parallelVars, combineVars>>

\* leaving the with block of purecn.py:139 moves tx_out_file to out_file
RO_Publish ==
  /\ ro_pc = "written"
  /\ out_file' = File(tx_lines)
  /\ ro_pc' = "done"
  /\ UNCHANGED <<in_lines, ro_pos, prev_line, tx_lines>>
  /\ UNCHANGED <<groupVars, mergeVars, stageVars, parallelVars, combineVars>>

NextOverlap == RO_Open \/ RO_Line \/ RO_Last \/ RO_Publish

SpecOverlap == InitOverlap /\ [][NextOverlap]_vars

InitGroup ==
  /\ OverlapIdle
  /\ MergeIdle
  /\ StageIdle
  /\ ParallelIdle
  /\ CombineIdle
  /\ samples \in SeqsUpTo(SampleRecs, MaxSamples) \cup {ExampleSamples}
  /\ gb_pos = 0
  /\ batch_groups = NoGroups
  /\ extras = <<>>
  /\ gb_pc = "loop"

\* ensemble.py:83  data["name"][-1] not in batch_groups
KeyFree(groups, k) == groups[k] = <<>>

\* ensemble.py:77-86: one iteration of the for loop
GB_Sample ==
  /\ gb_pc = "loop"
  /\ gb_pos < Len(samples)
  /\ LET i == gb_pos + 1
         data == samples[i]
     IN
       IF data.ok
         THEN IF data.batch # NoBatch
                THEN /\ batch_groups' = [batch_groups EXCEPT
                                           ![data.batch] = Append(@, i)]
                     /\ gb_pos' = i
                     /\ UNCHANGED <<extras, gb_pc>>
                ELSE IF KeyFree(batch_groups, data.name)
                       THEN /\ batch_groups' = [batch_groups EXCEPT
                                                  ![data.name] = <<i>>]
                            /\ gb_pos' = i
                            /\ UNCHANGED <<extras, gb_pc>>
                       ELSE \* AssertionError
                            /\ gb_pc' = "abort"
                            /\ UNCHANGED <<batch_groups, extras, gb_pos>>
         ELSE /\ extras' = Append(extras, i)
              /\ gb_pos' = i
              /\ UNCHANGED <<batch_groups, gb_pc>>
  /\ UNCHANGED samples
  /\ UNCHANGED <<overlapVars, mergeVars, stageVars, parallelVars, combineVars>>

\* ensemble.py:87
GB_Return ==
  /\ gb_pc = "loop"
  /\ gb_pos = Len(samples)
  /\ gb_pc' = "done"
  /\ UNCHANGED <<samples, gb_pos, batch_groups, extras>>
  /\ UNCHANGED <<overlapVars, mergeVars, stageVars, parallelVars, combineVars>>

NextGroup == GB_Sample \/ GB_Return

SpecGroup == InitGroup /\ [][NextGroup]_vars

InitMerge ==
  /\ OverlapIdle
  /\ GroupIdle
  /\ StageIdle
  /\ ParallelIdle
  /\ CombineIdle
  /\ members \in UNION {[1..k -> MemberRecs] : k \in 1..MaxMembers}
  /\ caller_names = <<>>
  /\ calls = NoCalls
  /\ vrn_file_temp = Unbound
  /\ ov_s = 0
  /\ ov_e = 0
  /\ ov_c = 0
  /\ vrn_files = <<>>
  /\ selects = <<>>
  /\ merges = <<>>
  /\ ov_pc = "start"

\* mutant: the caller names are read from the last member
LastSampleCallers(ms) ==
  [i \in 1..Len(ms[Len(ms)].variants) |-> ms[Len(ms)].variants[i].variantcaller]

\* ensemble.py:93  [x["variantcaller"] for x in samples[0]["variants"]]
FirstSampleCallers(ms) ==
  [i \in 1..Len(ms[1].variants) |-> ms[1].variants[i].variantcaller]

\* ensemble.py:92-95
OV_Begin ==
  /\ ov_pc = "start"
  /\ caller_names' = FirstSampleCallers(members)
  /\ calls' = NoCalls
  /\ ov_s' = 1
  /\ ov_e' = 1
  /\ ov_pc' = "collect"
  /\ UNCHANGED <<members, vrn_file_temp, ov_c, vrn_files, selects, merges>>
  /\ UNCHANGED <<overlapVars, groupVars, stageVars, parallelVars, combineVars>>

\* ensemble.py:102  metadata present and phenotype.lower().startswith("tumor")
IsTumor(data) == data.pheno = "tumor"

\* the loops of ensemble.py:95 and :98 move on; after the last call result of
\* the last member the function goes on to ensemble.py:109
OV_Advance ==
  IF ov_e < Len(members[ov_s].variants)
    THEN ov_e' = ov_e + 1 /\ UNCHANGED <<ov_s, ov_pc>>
    ELSE IF ov_s < Len(members)
           THEN ov_s' = ov_s + 1 /\ ov_e' = 1 /\ UNCHANGED ov_pc
           ELSE ov_pc' = "assemble" /\ UNCHANGED <<ov_s, ov_e>>

\* ensemble.py:98-108: one iteration of the inner loop
OV_Variant ==
  /\ ov_pc = "collect"
  /\ LET data == members[ov_s]
         vrn == data.variants[ov_e]
         vrn_file == IF vrn.form = "none" THEN NoneRef ELSE Raw(ov_s, ov_e)
         Contribute(f) == calls' = [calls EXCEPT ![vrn.variantcaller] = Append(@, f)]
         Fails == /\ ov_pc' = "error"
                  /\ UNCHANGED <<calls, vrn_file_temp, selects, ov_s, ov_e>>
     IN
       IF ~IsTumor(data)
         THEN /\ Contribute(vrn_file)
              /\ OV_Advance
              /\ UNCHANGED <<vrn_file_temp, selects>>
       ELSE IF vrn.form = "none"
         THEN Fails  \* ".vcf" in None: TypeError
       ELSE IF vrn.form = "vcf"
         THEN /\ vrn_file_temp' = Replaced(vrn_file)
              /\ selects' = Append(selects, [in_file |-> vrn_file, out_file |-> vrn_file_temp'])
              /\ Contribute(vrn_file_temp')
              /\ OV_Advance
       ELSE IF vrn_file_temp = Unbound
         THEN Fails  \* UnboundLocalError
       ELSE /\ vrn_file_temp' = Appended(vrn_file_temp, vrn_file)
            /\ selects' = Append(selects, [in_file |-> vrn_file, out_file |-> vrn_file_temp'])
            /\ Contribute(vrn_file_temp')
            /\ OV_Advance
  /\ UNCHANGED <<members, caller_names, ov_c, vrn_files, merges>>
  /\ UNCHANGED <<overlapVars, groupVars, stageVars, parallelVars, combineVars>>

\* ensemble.py:111-116: one iteration of the loop over caller_names
OV_Caller ==
  /\ ov_pc = "assemble"
  /\ ov_c < Len(caller_names)
  /\ LET caller == caller_names[ov_c + 1]
         fnames == calls[caller]
     IN
       IF Len(fnames) = 1
         THEN /\ vrn_files' = Append(vrn_files, fnames[1])
              /\ UNCHANGED merges
         ELSE /\ vrn_files' = Append(vrn_files, Merged(caller))
              /\ merges' = Append(merges, [caller |-> caller, fnames |-> fnames])
  /\ ov_c' = ov_c + 1
  /\ UNCHANGED <<members, caller_names, calls, vrn_file_temp, ov_s, ov_e, selects, ov_pc>>
  /\ UNCHANGED <<overlapVars, groupVars, stageVars, parallelVars, combineVars>>

\* ensemble.py:117
OV_Return ==
  /\ ov_pc = "assemble"
  /\ ov_c = Len(caller_names)
  /\ ov_pc' = "done"
  /\ UNCHANGED <<members, caller_names, calls, vrn_file_temp, ov_s, ov_e, ov_c,
                 vrn_files, selects, merges>>
  /\ UNCHANGED <<overlapVars, groupVars, stageVars, parallelVars, combineVars>>

NextMerge == OV_Begin \/ OV_Variant \/ OV_Caller \/ OV_Return

SpecMerge == InitMerge /\ [][NextMerge]_vars

\* ------------------------------------------------------------- stages
OthersIdle == OverlapIdle /\ GroupIdle /\ MergeIdle /\ ParallelIdle /\ CombineIdle

InitStage ==
  /\ OthersIdle
  /\ stage \in Stages
  /\ fs = [p \in Paths |->
            IF p \in InputsOf(stage) \ {SegFile, FilteredVcf} THEN Written(1) ELSE Absent]
  /\ written = {}
  /\ clock = 1
  /\ st_pc = "idle"
  /\ tx_out = ""
  /\ tx = "none"
  /\ tx_files = {}
  /\ moved = 0
  /\ checked = ""
  /\ decision = "none"
  /\ fresh = FALSE

OthersUnchanged == UNCHANGED <<overlapVars, groupVars, mergeVars, parallelVars, combineVars>>

\* a step before the stage regenerates one of its inputs
Touch(p) ==
  /\ st_pc = "idle"
  /\ p \in InputsOf(stage)
  /\ file_exists(fs, p)
  /\ clock < MaxClock
  /\ clock' = clock + 1
  /\ fs' = [fs EXCEPT ![p] = Written(clock + 1)]
  /\ fresh' = FALSE
  /\ UNCHANGED <<stage, written, st_pc, tx_out, tx, tx_files, moved, checked, decision>>
  /\ OthersUnchanged

\* the test "if not utils.file_uptodate(out, cmp)" followed by entering
\* "with file_transaction(out)" or by skipping the block
UptodateOrTransaction(out, cmp, skip_pc) ==
  /\ checked' = out
  /\ IF file_uptodate(fs, out, cmp)
       THEN /\ decision' = "skip"
            /\ st_pc' = skip_pc
            /\ UNCHANGED <<tx_out, tx>>
       ELSE /\ decision' = "produce"
            /\ st_pc' = "tx"
            /\ tx_out' = out
            /\ tx' = "empty"

\* purecn.py:137-139
RemoveOverlaps_Check ==
  /\ stage = "_remove_overlaps"
  /\ st_pc = "idle"
  /\ written' = {}
  /\ UptodateOrTransaction(NoOverlapsBed, BinsBed, "done")
  /\ UNCHANGED <<stage, fs, clock, tx_files, moved, fresh>>
  /\ OthersUnchanged

\* purecn.py:100-102
Gatk_CheckSeg ==
  /\ stage = "_segment_normalized_gatk"
  /\ st_pc = "idle"
  /\ written' = {}
  /\ UptodateOrTransaction(StdSeg, CrSeg, "cnr_check")
  /\ UNCHANGED <<stage, fs, clock, tx_files, moved, fresh>>
  /\ OthersUnchanged

\* purecn.py:107-109
Gatk_CheckCnr ==
  /\ stage = "_segment_normalized_gatk"
  /\ st_pc = "cnr_check"
  /\ written' = {}
  /\ UptodateOrTransaction(StdCnr, DenoisedCnr, "done")
  /\ UNCHANGED <<stage, fs, clock, tx_files, moved, fresh>>
  /\ OthersUnchanged

\* the body of a "with file_transaction(...) as tx_out_file" block writes to
\* the temporary file
Tx_Write ==
  /\ st_pc = "tx"
  /\ tx \in {"empty", "partial"}
  /\ tx' = IF tx = "empty" THEN "partial" ELSE "complete"
  /\ UNCHANGED <<stage, fs, written, clock, st_pc, tx_out, tx_files, moved,
                 checked, decision, fresh>>
  /\ OthersUnchanged

\* the body raises: file_transaction removes the temporary file and re-raises
Tx_Fail ==
  /\ st_pc = "tx"
  /\ st_pc' = "failed"
  /\ tx' = "none"
  /\ tx_out' = ""
  /\ UNCHANGED <<stage, fs, written, clock, tx_files, moved, checked, decision, fresh>>
  /\ OthersUnchanged

\* the body ends: file_transaction moves the temporary file to the output
Tx_Publish ==
  /\ st_pc = "tx"
  /\ tx = "complete"
  /\ fs' = [fs EXCEPT ![tx_out] = Written(clock)]
  /\ st_pc' = IF tx_out = StdSeg THEN "cnr_check" ELSE "done"
  /\ tx' = "none"
  /\ tx_out' = ""
  /\ written' = written \cup {tx_out}
  /\ UNCHANGED <<stage, clock, tx_files, moved, checked, decision, fresh>>
  /\ OthersUnchanged

\* purecn.py:71-73
PureCN_Check ==
  /\ stage = "_run_purecn"
  /\ st_pc = "idle"
  /\ written' = {}
  /\ checked' = Rds
  /\ IF file_uptodate(fs, Rds, NormalizedBins)
       THEN decision' = "skip" /\ st_pc' = "done"
       ELSE decision' = "produce" /\ st_pc' = "prep"
  /\ UNCHANGED <<stage, fs, clock, tx_out, tx, tx_files, moved, fresh>>
  /\ OthersUnchanged

\* purecn.py:74-78: the segmentation and the filtered VCF are there when
\* the transaction opens
PureCN_Prep ==
  /\ stage = "_run_purecn"
  /\ st_pc = "prep"
  /\ fs' = [p \in Paths |->
             IF p \in {SegFile, FilteredVcf} /\ ~file_exists(fs, p)
               THEN Written(clock) ELSE fs[p]]
  /\ st_pc' = "tool"
  /\ tx_files' = {}
  /\ UNCHANGED <<stage, written, clock, tx_out, tx, moved, checked, decision, fresh>>
  /\ OthersUnchanged

\* purecn.py:82-89: PureCN.R exits with 0; it wrote all its files into the
\* transaction directory, or all but one
PureCN_Tool ==
  /\ stage = "_run_purecn"
  /\ st_pc = "tool"
  /\ \E missing \in SUBSET PureCNFileSet :
       /\ Cardinality(missing) <= 1
       /\ tx_files' = PureCNFileSet \ missing
  /\ st_pc' = "move"
  /\ moved' = 0
  /\ UNCHANGED <<stage, fs, written, clock, tx_out, tx, checked, decision, fresh>>
  /\ OthersUnchanged

\* purecn.py:89: do.run raises, the transaction directory is removed
PureCN_ToolFail ==
  /\ stage = "_run_purecn"
  /\ st_pc = "tool"
  /\ st_pc' = "failed"
  /\ tx_files' = {}
  /\ UNCHANGED <<stage, fs, written, clock, tx_out, tx, moved, checked, decision, fresh>>
  /\ OthersUnchanged

\* purecn.py:90-92: one iteration of the loop over all_files; shutil.move of a
\* file that is not there raises
PureCN_Move ==
  /\ stage = "_run_purecn"
  /\ st_pc = "move"
  /\ moved < Len(PureCNFiles)
  /\ LET f == PureCNFiles[moved + 1] IN
       IF f \in tx_files
         THEN /\ fs' = [fs EXCEPT ![f] = Written(clock)]
              /\ tx_files' = tx_files \ {f}
              /\ moved' = moved + 1
              /\ st_pc' = IF moved + 1 = Len(PureCNFiles) THEN "done" ELSE "move"
         ELSE /\ st_pc' = "failed"
              /\ tx_files' = {}
              /\ UNCHANGED <<fs, moved>>
  /\ written' = IF PureCNFiles[moved + 1] \in tx_files
                 THEN written \cup {PureCNFiles[moved + 1]} ELSE written
  /\ UNCHANGED <<stage, clock, tx_out, tx, checked, decision, fresh>>
  /\ OthersUnchanged

\* the process is killed between two moves
PureCN_Interrupt ==
  /\ stage = "_run_purecn"
  /\ st_pc = "move"
  /\ st_pc' = "failed"
  /\ tx_files' = {}
  /\ UNCHANGED <<stage, fs, written, clock, tx_out, tx, moved, checked, decision, fresh>>
  /\ OthersUnchanged

\* ensemble.py:136-139
Ensemble_Check ==
  /\ stage = "_run_ensemble"
  /\ st_pc = "idle"
  /\ written' = {}
  /\ checked' = EnsembleVcf
  /\ IF ~file_exists(fs, EnsembleVcf)
       THEN decision' = "produce" /\ st_pc' = "tool"
       ELSE decision' = "skip" /\ st_pc' = "bed"
  /\ UNCHANGED <<stage, fs, clock, tx_out, tx, tx_files, moved, fresh>>
  /\ OthersUnchanged

\* ensemble.py:128-131, 140: the tool is handed out_vcf_file itself and has
\* written a part of it
Ensemble_ToolWrite ==
  /\ stage = "_run_ensemble"
  /\ st_pc = "tool"
  /\ ~file_exists(fs, EnsembleVcf)
  /\ fs' = [fs EXCEPT ![EnsembleVcf] = Partial(clock)]
  /\ written' = written \cup {EnsembleVcf}
  /\ UNCHANGED <<stage, clock, st_pc, tx_out, tx, tx_files, moved,
                 checked, decision, fresh>>
  /\ OthersUnchanged

\* ensemble.py:131: do.run raises
Ensemble_ToolFail ==
  /\ stage = "_run_ensemble"
  /\ st_pc = "tool"
  /\ st_pc' = "failed"
  /\ UNCHANGED <<stage, fs, written, clock, tx_out, tx, tx_files, moved,
                 checked, decision, fresh>>
  /\ OthersUnchanged

\* ensemble.py:131: the tool exits with 0; what it began to write is complete,
\* and it left any of its two intermediate files in work_dir/prep
Ensemble_ToolDone ==
  /\ stage = "_run_ensemble"
  /\ st_pc = "tool"
  /\ \E cfilter, multi \in BOOLEAN :
       fs' = [p \in Paths |->
                IF p = EnsembleVcf /\ file_exists(fs, p) THEN Written(clock)
                ELSE IF p = CFilterVcf /\ cfilter THEN Written(clock)
                ELSE IF p = MultiCombineBed /\ multi THEN Written(clock)
                ELSE fs[p]]
  /\ st_pc' = "fallback"
  /\ UNCHANGED <<stage, written, clock, tx_out, tx, tx_files, moved,
                 checked, decision, fresh>>
  /\ OthersUnchanged

\* ensemble.py:142-144: glob(...)[0] of an empty list raises IndexError
Ensemble_Fallback ==
  /\ stage = "_run_ensemble"
  /\ st_pc = "fallback"
  /\ IF file_exists(fs, EnsembleVcf)
       THEN st_pc' = "bed" /\ UNCHANGED fs
       ELSE IF file_exists(fs, CFilterVcf)
              THEN /\ fs' = [fs EXCEPT ![EnsembleVcf] = Linked(fs[CFilterVcf].mtime)]
                   /\ st_pc' = "bed"
              ELSE st_pc' = "failed" /\ UNCHANGED fs
  /\ written' = IF file_exists(fs, EnsembleVcf) \/ ~file_exists(fs, CFilterVcf)
                 THEN written ELSE written \cup {EnsembleVcf}
  /\ UNCHANGED <<stage, clock, tx_out, tx, tx_files, moved,
                 checked, decision, fresh>>
  /\ OthersUnchanged

\* ensemble.py:145-151
Ensemble_Bed ==
  /\ stage = "_run_ensemble"
  /\ st_pc = "bed"
  /\ fs' = IF ~file_exists(fs, CallRegionsBed) /\ file_exists(fs, MultiCombineBed)
             THEN [fs EXCEPT ![CallRegionsBed] = Linked(fs[MultiCombineBed].mtime)]
             ELSE fs
  /\ st_pc' = "done"
  /\ written' = IF ~file_exists(fs, CallRegionsBed) /\ file_exists(fs, MultiCombineBed)
                 THEN written \cup {CallRegionsBed} ELSE written
  /\ UNCHANGED <<stage, clock, tx_out, tx, tx_files, moved,
                 checked, decision, fresh>>
  /\ OthersUnchanged

\* ensemble.py:174-175
Recall_Check ==
  /\ stage = "_run_ensemble_w_caller"
  /\ st_pc = "idle"
  /\ written' = {}
  /\ checked' = EnsembleVcf
  /\ IF ~file_exists(fs, EnsembleVcf)
       THEN decision' = "produce" /\ st_pc' = "tool"
       ELSE decision' = "skip" /\ st_pc' = "effects"
  /\ UNCHANGED <<stage, fs, clock, tx_out, tx, tx_files, moved, fresh>>
  /\ OthersUnchanged

\* ensemble.py:177-181: the tool is handed out_vcf_file itself and has
\* written a part of it
Recall_ToolWrite ==
  /\ stage = "_run_ensemble_w_caller"
  /\ st_pc = "tool"
  /\ ~file_exists(fs, EnsembleVcf)
  /\ fs' = [fs EXCEPT ![EnsembleVcf] = Partial(clock)]
  /\ written' = written \cup {EnsembleVcf}
  /\ UNCHANGED <<stage, clock, st_pc, tx_out, tx, tx_files, moved,
                 checked, decision, fresh>>
  /\ OthersUnchanged

\* ensemble.py:181: do.run raises
Recall_ToolFail ==
  /\ stage = "_run_ensemble_w_caller"
  /\ st_pc = "tool"
  /\ st_pc' = "failed"
  /\ UNCHANGED <<stage, fs, written, clock, tx_out, tx, tx_files, moved,
                 checked, decision, fresh>>
  /\ OthersUnchanged

\* ensemble.py:181: the tool exits with 0 and out_vcf_file is complete
Recall_ToolDone ==
  /\ stage = "_run_ensemble_w_caller"
  /\ st_pc = "tool"
  /\ fs' = [fs EXCEPT ![EnsembleVcf] = Written(clock)]
  /\ st_pc' = "effects"
  /\ written' = written \cup {EnsembleVcf}
  /\ UNCHANGED <<stage, clock, tx_out, tx, tx_files, moved,
                 checked, decision, fresh>>
  /\ OthersUnchanged

\* ensemble.py:182-187: effects.snpeff_effects writes the annotated file
\* unless it is up to date
Recall_Effects ==
  /\ stage = "_run_ensemble_w_caller"
  /\ st_pc = "effects"
  /\ fs' = snpeff_effects(fs, clock)
  /\ st_pc' = "done"
  /\ written' = IF file_uptodate(fs, EffectsVcf, EnsembleVcf)
                 THEN written ELSE written \cup {EffectsVcf}
  /\ UNCHANGED <<stage, clock, tx_out, tx, tx_files, moved,
                 checked, decision, fresh>>
  /\ OthersUnchanged

\* the call returns or its exception reaches the caller
Stage_Return ==
  /\ st_pc \in {"done", "failed"}
  /\ st_pc' = "idle"
  /\ fresh' = (st_pc = "done")
  /\ checked' = ""
  /\ decision' = "none"
  /\ written' = {}
  /\ moved' = 0
  /\ UNCHANGED <<stage, fs, clock, tx_out, tx, tx_files>>
  /\ OthersUnchanged

NextStage ==
  \/ \E p \in Paths : Touch(p)
  \/ RemoveOverlaps_Check
  \/ Gatk_CheckSeg
  \/ Gatk_CheckCnr
  \/ Tx_Write
  \/ Tx_Fail
  \/ Tx_Publish
  \/ PureCN_Check
  \/ PureCN_Prep
  \/ PureCN_Tool
  \/ PureCN_ToolFail
  \/ PureCN_Move
  \/ PureCN_Interrupt
  \/ Ensemble_Check
  \/ Ensemble_ToolWrite
  \/ Ensemble_ToolFail
  \/ Ensemble_ToolDone
  \/ Ensemble_Fallback
  \/ Ensemble_Bed
  \/ Recall_Check
  \/ Recall_ToolWrite
  \/ Recall_ToolFail
  \/ Recall_ToolDone
  \/ Recall_Effects
  \/ Stage_Return

SpecStage == InitStage /\ [][NextStage]_vars

\* ------------------------------------------------ combine_calls_parallel
\* the samples handed to combine_calls_parallel: tagged with one batch or
\* untagged, so that at most two batch tasks run side by side
ParallelRecs == {r \in SampleRecs : r.batch \in {NoBatch, "fam1"}}

InitParallel ==
  /\ OverlapIdle
  /\ MergeIdle
  /\ StageIdle
  /\ CombineIdle
  /\ samples \in SeqsUpTo(ParallelRecs, MaxSamples)
  /\ gb_pos = 0
  /\ batch_groups = NoGroups
  /\ extras = <<>>
  /\ gb_pc = "loop"
  /\ heap = [i \in 1..Len(samples) |-> SampleData(i)]
  /\ task = NoTasks
  /\ edata = [k \in Keys |-> 0]
  /\ out_vcf_file = [k \in Keys |-> "absent"]
  /\ processed = <<>>
  /\ cp_pos = 0
  /\ cp_out = <<>>
  /\ cp_pc = "group"

OthersOff == UNCHANGED <<overlapVars, groupVars, mergeVars, stageVars, combineVars>>

\* ensemble.py:58-59: with no batch run_parallel is not called; else one
\* combine_calls task per batch is handed to it
CP_RunParallel ==
  /\ cp_pc = "group"
  /\ gb_pc = "done"
  /\ IF batch_groups = NoGroups
       THEN cp_pc' = "attach" /\ UNCHANGED task
       ELSE /\ cp_pc' = "wait"
            /\ task' = [k \in Keys |-> IF batch_groups[k] # <<>> THEN "queued" ELSE "none"]
  /\ UNCHANGED <<heap, edata, out_vcf_file, processed, cp_pos, cp_out>>
  /\ OthersOff

\* mutant: edata is the dictionary data itself
alias(h, data) == data

\* ensemble.py:26  copy.deepcopy(data): the object of the copy, a new one
deepcopy(h, data) == Len(h) + 1

\* ensemble.py:26-28: the task of a batch starts; data is xs[0]
CC_Start(k) ==
  /\ cp_pc = "wait"
  /\ task[k] = "queued"
  /\ LET data == batch_groups[k][1]
         e == deepcopy(heap, data)
     IN /\ edata' = [edata EXCEPT ![k] = e]
        /\ heap' = IF e > Len(heap) THEN Append(heap, heap[data]) ELSE heap
  /\ task' = [task EXCEPT ![k] = "running"]
  /\ UNCHANGED <<out_vcf_file, processed, cp_pos, cp_out, cp_pc>>
  /\ OthersOff

\* ensemble.py:140, 180: the external tool of the batch has written a part of
\* out_vcf_file, the path it was handed
CC_ToolWrite(k) ==
  /\ cp_pc = "wait"
  /\ task[k] = "running"
  /\ out_vcf_file[k] = "absent"
  /\ out_vcf_file' = [out_vcf_file EXCEPT ![k] = "partial"]
  /\ UNCHANGED <<heap, task, edata, processed, cp_pos, cp_out, cp_pc>>
  /\ OthersOff

\* ensemble.py:131, 181: do.run raises and nothing in combine_calls catches it
CC_Fail(k) ==
  /\ cp_pc = "wait"
  /\ task[k] = "running"
  /\ task' = [task EXCEPT ![k] = "failed"]
  /\ UNCHANGED <<heap, edata, out_vcf_file, processed, cp_pos, cp_out, cp_pc>>
  /\ OthersOff

\* ensemble.py:34-51: with variants a strategy has run and edata is updated;
\* without, the empty file is written; [[batch_id, callinfo]] is returned
CC_Return(k) ==
  /\ cp_pc = "wait"
  /\ task[k] = "running"
  /\ \E exist_variants \in BOOLEAN :
       /\ ~exist_variants => out_vcf_file[k] = "absent"
       /\ heap' = IF exist_variants
                    THEN [heap EXCEPT ![edata[k]] =
                            [@ EXCEPT !.variantcaller = "ensemble",
                                      !.vrn_file = BatchCallinfo(k).vrn_file,
                                      !.ensemble_bed = BatchCallinfo(k).bed_file]]
                    ELSE heap
  /\ out_vcf_file' = [out_vcf_file EXCEPT ![k] = "ok"]
  /\ processed' = Append(processed, [batch_id |-> k, callinfo |-> BatchCallinfo(k)])
  /\ task' = [task EXCEPT ![k] = "returned"]
  /\ UNCHANGED <<edata, cp_pos, cp_out, cp_pc>>
  /\ OthersOff

AllFinished == \A k \in Keys : task[k] \in {"none", "returned", "failed"}

SomeFailed == \E k \in Keys : task[k] = "failed"

\* run_parallel hands back the items of the tasks that returned
CP_Collect ==
  /\ cp_pc = "wait"
  /\ AllFinished
  /\ cp_pc' = "attach"
  /\ UNCHANGED <<heap, task, edata, out_vcf_file, processed, cp_pos, cp_out>>
  /\ OthersOff

\* run_parallel raises the exception of a failed task
CP_Raise ==
  /\ cp_pc = "wait"
  /\ AllFinished
  /\ SomeFailed
  /\ cp_pc' = "raised"
  /\ UNCHANGED <<heap, task, edata, out_vcf_file, processed, cp_pos, cp_out>>
  /\ OthersOff

\* mutant: the callinfo goes to the first sample of the batch only
FirstOf(groups, batch_id) == <<groups[batch_id][1]>>

\* ensemble.py:61  batch_groups[batch_id]
GroupOf(groups, batch_id) == groups[batch_id]

\* ensemble.py:60-63: one iteration of the loop over processed
CP_Attach ==
  /\ cp_pc = "attach"
  /\ cp_pos < Len(processed)
  /\ LET item == processed[cp_pos + 1]
         xs == GroupOf(batch_groups, item.batch_id)
         ids == {xs[j] : j \in 1..Len(xs)}
     IN /\ heap' = [o \in 1..Len(heap) |->
                      IF o \in ids
                        THEN [heap[o] EXCEPT !.variants = <<item.callinfo>> \o @]
                        ELSE heap[o]]
        /\ cp_out' = cp_out \o xs
  /\ cp_pos' = cp_pos + 1
  /\ UNCHANGED <<task, edata, out_vcf_file, processed, cp_pc>>
  /\ OthersOff

\* ensemble.py:64  return out + extras
CP_Return ==
  /\ cp_pc = "attach"
  /\ cp_pos = Len(processed)
  /\ cp_out' = cp_out \o extras
  /\ cp_pc' = "done"
  /\ UNCHANGED <<heap, task, edata, out_vcf_file, processed, cp_pos>>
  /\ OthersOff

NextParallel ==
  \/ GB_Sample
  \/ GB_Return
  \/ CP_RunParallel
  \/ \E k \in Keys : CC_Start(k)
  \/ \E k \in Keys : CC_ToolWrite(k)
  \/ \E k \in Keys : CC_Fail(k)
  \/ \E k \in Keys : CC_Return(k)
  \/ CP_Collect
  \/ CP_Raise
  \/ CP_Attach
  \/ CP_Return

SpecParallel == InitParallel /\ [][NextParallel]_vars

\* ---------------------------------------------------------- combine_calls
InitCombine ==
  /\ OverlapIdle
  /\ GroupIdle
  /\ MergeIdle
  /\ StageIdle
  /\ ParallelIdle
  /\ cc_samples \in [BatchIds -> UNION {[1..n -> CombineRecs] : n \in 1..MaxMembers}]
  /\ cc_pc = [k \in BatchIds |-> "start"]
  /\ writes = [k \in BatchIds |-> {}]
  /\ procs = [k \in BatchIds |-> <<>>]
  /\ cc_callinfo = [k \in BatchIds |-> NoCallinfo]

CombineOthers == UNCHANGED <<overlapVars, groupVars, mergeVars, stageVars, parallelVars>>

CallerSet == {CombineCallers[j] : j \in 1..Len(CombineCallers)}

\* ensemble.py:26-27: edata is copied and base_dir is made
CB_Makedir(k) ==
  /\ cc_pc[k] = "start"
  /\ writes' = [writes EXCEPT ![k] = @ \cup {BaseDir(k)}]
  /\ cc_pc' = [cc_pc EXCEPT ![k] = "organize"]
  /\ UNCHANGED <<cc_samples, procs, cc_callinfo>>
  /\ CombineOthers

\* the members of the batch that ensemble.py:102 takes for tumor samples
TumorMembers(xs) == {i \in 1..Len(xs) : xs[i].pheno = "tumor"}

\* ensemble.py:105  one vcfutils.select_sample per call file of a tumor sample
SelectRuns(xs) ==
  [j \in 1..(Cardinality(TumorMembers(xs)) * Len(CombineCallers)) |-> "select_sample"]

\* ensemble.py:113-116  one population.get_multisample_vcf per caller unless
\* the caller has exactly one file
MergeRuns(xs) ==
  IF Len(xs) = 1 THEN <<>> ELSE [j \in 1..Len(CombineCallers) |-> "get_multisample_vcf"]

\* ensemble.py:28: _organize_variants, with the files its collaborators write
CB_Organize(k) ==
  /\ cc_pc[k] = "organize"
  /\ LET xs == cc_samples[k] IN
       /\ procs' = [procs EXCEPT ![k] = @ \o SelectRuns(xs) \o MergeRuns(xs)]
       /\ writes' = [writes EXCEPT ![k] =
                       @ \cup {TumorOnlyPath(VrnPath(xs[i], c)) :
                                 i \in TumorMembers(xs), c \in CallerSet}
                         \cup (IF Len(xs) = 1 THEN {}
                               ELSE {MultisamplePath(k, c) : c \in CallerSet})]
  /\ cc_pc' = [cc_pc EXCEPT ![k] = "check"]
  /\ UNCHANGED <<cc_samples, cc_callinfo>>
  /\ CombineOthers

\* vcfutils.vcf_has_variants of some representative file
exist_variants(xs) == \E i \in 1..Len(xs) : xs[i].has_variants

\* ensemble.py:29-34 and 45-51: the test of the representative files; with no
\* variants the empty file is written and the callinfo returned
CB_Check(k) ==
  /\ cc_pc[k] = "check"
  /\ IF exist_variants(cc_samples[k])
       THEN /\ cc_pc' = [cc_pc EXCEPT ![k] = "strategy"]
            /\ UNCHANGED <<writes, cc_callinfo>>
       ELSE /\ cc_pc' = [cc_pc EXCEPT ![k] = "done"]
            /\ writes' = [writes EXCEPT ![k] = @ \cup {EnsemblePath(k)}]
            /\ cc_callinfo' = [cc_callinfo EXCEPT ![k] =
                                 [variantcaller |-> "ensemble",
                                  vrn_file |-> EnsemblePath(k),
                                  bed_file |-> NullRef]]
  /\ UNCHANGED <<cc_samples, procs>>
  /\ CombineOthers

\* ensemble.py:38-44: the configuration file, the scoring tool, the links and
\* the validation
CB_Score(k) ==
  /\ cc_pc[k] = "strategy"
  /\ \E bed \in BOOLEAN :
       /\ writes' = [writes EXCEPT ![k] =
                       @ \cup {ConfigPath(k), EnsemblePath(k)}
                         \cup (IF bed THEN {BedPath(k)} ELSE {})]
       /\ cc_callinfo' = [cc_callinfo EXCEPT ![k] =
                            [variantcaller |-> "ensemble",
                             vrn_file |-> EnsemblePath(k),
                             bed_file |-> IF bed THEN BedPath(k) ELSE NullRef]]
  /\ procs' = [procs EXCEPT ![k] = @ \o <<"variant-ensemble", "compare_to_rm">>]
  /\ cc_pc' = [cc_pc EXCEPT ![k] = "done"]
  /\ UNCHANGED cc_samples
  /\ CombineOthers

\* effects.snpeff_effects: the annotated file of the batch's out_vcf_file
EffectsPath(batch_id) == <<"ensemble", batch_id, "ensemble-effects.vcf">>

\* ensemble.py:35-36 and 41-44: the recall tool, the annotation and the
\* validation
CB_Recall(k) ==
  /\ cc_pc[k] = "strategy"
  /\ writes' = [writes EXCEPT ![k] = @ \cup {EnsemblePath(k), EffectsPath(k)}]
  /\ cc_callinfo' = [cc_callinfo EXCEPT ![k] =
                       [variantcaller |-> "ensemble",
                        vrn_file |-> EffectsPath(k),
                        bed_file |-> NullRef]]
  /\ procs' = [procs EXCEPT ![k] =
                 @ \o <<"bcbio-variation-recall", "snpeff_effects", "compare_to_rm">>]
  /\ cc_pc' = [cc_pc EXCEPT ![k] = "done"]
  /\ UNCHANGED cc_samples
  /\ CombineOthers

NextCombine ==
  \/ \E k \in BatchIds : CB_Makedir(k)
  \/ \E k \in BatchIds : CB_Organize(k)
  \/ \E k \in BatchIds : CB_Check(k)
  \/ \E k \in BatchIds : CB_Score(k)
  \/ \E k \in BatchIds : CB_Recall(k)

SpecCombine == InitCombine /\ [][NextCombine]_vars

\* ----------------------------------------------------------- C4, C5
ChromRank(c) == CHOOSE i \in 1..Len(Chroms) : Chroms[i] = c

\* sorted by chromosome and then by start
SortedInput(s) ==
  \A i \in 1..(Len(s) - 1) :
    \/ ChromRank(s[i].chrom) < ChromRank(s[i + 1].chrom)
    \/ s[i].chrom = s[i + 1].chrom /\ s[i].start <= s[i + 1].start

\* C4: for an input sorted by chromosome and then by start, no two consecutive
\* records of the published output are on the same chromosome with the earlier
\* record's end greater than the later record's start.
C4_NoConsecutiveOverlap ==
  (ro_pc = "done" /\ SortedInput(in_lines)) =>
    \A i \in 1..(Len(out_file.lines) - 1) :
      ~(out_file.lines[i].chrom = out_file.lines[i + 1].chrom
        /\ out_file.lines[i].end > out_file.lines[i + 1].start)

\* a sorted input from which a record was dropped and whose output still holds
\* two records of one chromosome next to each other
C4_Witness ==
  /\ ro_pc = "done"
  /\ SortedInput(in_lines)
  /\ Len(out_file.lines) < Len(in_lines)
  /\ \E i \in 1..(Len(out_file.lines) - 1) :
       out_file.lines[i].chrom = out_file.lines[i + 1].chrom

\* the indices of the input that the claim says are emitted
KeptIndex(s, i) ==
  \/ i = Len(s)
  \/ i < Len(s) /\ ~(s[i].chrom = s[i + 1].chrom /\ s[i].end > s[i + 1].start)

RECURSIVE KeptFrom(_, _)
KeptFrom(s, i) ==
  IF i > Len(s) THEN <<>>
  ELSE IF KeptIndex(s, i) THEN <<s[i]>> \o KeptFrom(s, i + 1)
  ELSE KeptFrom(s, i + 1)

\* C5: for a non-empty input, sorted or not, the published output is the
\* subsequence of the input that keeps the last record and every record that
\* does not overlap its immediate successor on the same chromosome; the worked
\* example yields its stated output.
C5_AdjacentPairSubsequence ==
  /\ ro_pc = "done" => out_file = File(KeptFrom(in_lines, 1))
  /\ (ro_pc = "done" /\ in_lines = ExampleInput) => out_file.lines = ExampleOutput
  /\ ro_pc = "error" => in_lines = <<>>

\* an unsorted input with a dropped record has been published
C5_Witness ==
  /\ ro_pc = "done"
  /\ ~SortedInput(in_lines)
  /\ Len(out_file.lines) < Len(in_lines)
  /\ Len(out_file.lines) >= 2

\* ----------------------------------------------------------- C6, C7
Qualifying == {i \in 1..Len(samples) : samples[i].ok}

\* the key the claim gives a qualifying sample: its batch tag, else its name
KeyOf(i) == IF samples[i].batch # NoBatch THEN samples[i].batch ELSE samples[i].name

Members(k) == {batch_groups[k][j] : j \in 1..Len(batch_groups[k])}

Increasing(s) == \A a, b \in 1..Len(s) : a < b => s[a] < s[b]

\* C6: a returned grouping is a partition of the qualifying samples: each is
\* in exactly one group, that of its batch tag, or a singleton group under its
\* own name when it has no tag; groups and the residual list are in input
\* order; the residual list is exactly the non-qualifying samples; the worked
\* example yields fam1: [A, B], C: [C] and no residual.
C6_GroupsArePartition ==
  gb_pc = "done" =>
    /\ \A i \in Qualifying :
         /\ i \in Members(KeyOf(i))
         /\ \A k \in Keys : i \in Members(k) => k = KeyOf(i)
         /\ samples[i].batch = NoBatch => batch_groups[KeyOf(i)] = <<i>>
    /\ \A k \in Keys : Members(k) \subseteq Qualifying /\ Increasing(batch_groups[k])
    /\ Increasing(extras)
    /\ {extras[j] : j \in 1..Len(extras)} = (1..Len(samples)) \ Qualifying
    /\ samples = ExampleSamples =>
         /\ batch_groups = [NoGroups EXCEPT !["fam1"] = <<1, 2>>, !["C"] = <<3>>]
         /\ extras = <<>>

\* an identity used as the singleton key of an untagged qualifying sample and
\* also as the batch tag or the singleton key of another qualifying sample
Collision ==
  \E i, j \in Qualifying :
    /\ i # j
    /\ samples[i].batch = NoBatch
    /\ KeyOf(j) = samples[i].name

\* C7: with such a collision among the qualifying samples the grouping aborts,
\* in whatever order the samples come; it never returns, and so never returns a
\* group that mixes an untagged sample with samples tagged by its name.
C7_CollisionAborts ==
  (gb_pc = "done" /\ Collision) => FALSE

\* ------------------------------------------------------- C8, C9, C10
\* the call results of the batch, as <<member, position>>
Entries ==
  UNION {{<<m, e>> : e \in 1..Len(members[m].variants)} : m \in 1..Len(members)}

EntryCaller(x) == members[x[1]].variants[x[2]].variantcaller

EntryHasFile(x) == members[x[1]].variants[x[2]].form # "none"

\* every caller name that occurs in a member's call results
AllCallers == {EntryCaller(x) : x \in Entries}

\* the call results of a caller that carry a file
FilesOf(c) == {x \in Entries : EntryCaller(x) = c /\ EntryHasFile(x)}

NamesListed == {caller_names[i] : i \in 1..Len(caller_names)}

MergedCallers == {merges[i].caller : i \in 1..Len(merges)}

\* the i-th representative is made of call results of the i-th caller name
BelongsTo(i) ==
  LET f == vrn_files[i]
      c == caller_names[i]
  IN IF f.kind = "merged"
       THEN /\ f.caller = c
            /\ \E j \in 1..Len(merges) :
                 /\ merges[j].caller = c
                 /\ \A k \in 1..Len(merges[j].fnames) :
                      \/ merges[j].fnames[k] = NoneRef
                      \/ EntryCaller(merges[j].fnames[k].owner) = c
       ELSE f = NoneRef \/ EntryCaller(f.owner) = c

C9_MergeIffSeveralFiles ==
  ov_pc = "done" =>
    \A c \in AllCallers :
      /\ c \in MergedCallers <=> Cardinality(FilesOf(c)) >= 2
      /\ Cardinality(FilesOf(c)) = 1 =>
           \E i \in 1..Len(caller_names) :
             /\ caller_names[i] = c
             /\ i <= Len(vrn_files)
             /\ vrn_files[i].kind \in {"raw", "filtered"}
             /\ vrn_files[i].owner \in FilesOf(c)

\* C10: a caller none of whose call results carries a file is not in the
\* caller-name list, no merge is invoked for it, and the representative list
\* holds no null entry.
C10_NoPlaceholderForFilelessCaller ==
  ov_pc = "done" =>
    /\ \A c \in AllCallers :
         FilesOf(c) = {} => c \notin NamesListed /\ c \notin MergedCallers
    /\ \A i \in 1..Len(vrn_files) : vrn_files[i] # NoneRef

\* -------------------------------------------------------- C1, C2, C3
\* the paths at which a stage publishes what it returns
FinalOutputs(st) ==
  CASE st = "_remove_overlaps" -> {NoOverlapsBed}
    [] st = "_segment_normalized_gatk" -> {StdSeg, StdCnr}
    [] st = "_run_purecn" -> PureCNFileSet
    [] st = "_run_ensemble" -> {EnsembleVcf, CallRegionsBed}
    [] st = "_run_ensemble_w_caller" -> {EnsembleVcf, EffectsVcf}
    [] OTHER -> {}

\* C1: no stage ever has a partially written file at a final output path, and
\* when a stage has failed, no final output path holds anything the failed
\* call wrote: each is absent or as it was before the call.
C1_NoPartialFinalOutput ==
  /\ \A p \in FinalOutputs(stage) : fs[p].state # "partial"
  /\ st_pc = "failed" => written = {}

\* the inputs a stage's output is declared to depend on
DeclaredInputs(out) ==
  CASE out = NoOverlapsBed -> {BinsBed}
    [] out = StdSeg -> {CrSeg}
    [] out = StdCnr -> {DenoisedCnr}
    [] out = Rds -> {NormalizedBins}
    [] out = EnsembleVcf -> {VrnFile}
    [] OTHER -> {}

\* C2: a call that follows a successful call with no input touched in between
\* does not invoke the producer, and a call skips the producer only while no
\* declared input is newer than the output; for the two ensemble strategies the
\* declared inputs are the per-caller representative files.
C2_ProducerRunsIffInputsChanged ==
  /\ decision = "produce" => ~fresh
  /\ decision = "skip" =>
       \A i \in DeclaredInputs(checked) : fs[i].mtime <= fs[checked].mtime

\* C3: the PureCN stage is skipped only if every output file it returns exists
\* and none of them is older than the normalized bins, the segmentation or the
\* filtered variant file.
C3_PureCNSkippedOnlyIfOutputsValid ==
  (stage = "_run_purecn" /\ decision = "skip") =>
    \A o \in PureCNFileSet :
      /\ fs[o].state = "ok"
      /\ \A i \in {NormalizedBins, SegFile, FilteredVcf} : fs[o].mtime >= fs[i].mtime

\* --------------------------------------------------------------- C18
\* C18: for an input of zero records the overlap removal ends without an
\* error and publishes an empty output, and for an input of one record it
\* publishes exactly that record; it never ends in an error with nothing
\* published.
C18_ShortInputsPublished ==
  (ro_pc \in {"done", "error"} /\ Len(in_lines) <= 1) =>
    ro_pc = "done" /\ out_file = File(in_lines)

\* --------------------------------------------------------------- C11
\* the call result x has been through the loop body of ensemble.py:98-108
Collected(x) ==
  \/ ov_pc \in {"assemble", "done"}
  \/ /\ ov_pc \in {"collect", "error"}
     /\ x[1] < ov_s \/ (x[1] = ov_s /\ x[2] < ov_e)

Contributed(x) == {calls[EntryCaller(x)][i] : i \in 1..Len(calls[EntryCaller(x)])}

SelectsOf(x) == {i \in 1..Len(selects) : selects[i].in_file = Raw(x[1], x[2])}

\* C11: every file of a tumor sample is handed to the filter and contributes
\* as the filtered file, whose name is the file's own name with the suffix put
\* in, whatever the form of that name (no file name makes the merger fail); a
\* file of a sample with normal phenotype, without phenotype or without
\* metadata contributes as it is and is never handed to the filter.
C11_TumorFilesFilteredUnderOwnName ==
  /\ \A x \in Entries :
       (Collected(x) /\ EntryHasFile(x)) =>
         IF IsTumor(members[x[1]])
           THEN /\ Cardinality(SelectsOf(x)) = 1
                /\ \A i \in SelectsOf(x) :
                     /\ selects[i].out_file = Replaced(Raw(x[1], x[2]))
                     /\ selects[i].out_file \in Contributed(x)
                /\ Raw(x[1], x[2]) \notin Contributed(x)
           ELSE /\ SelectsOf(x) = {}
                /\ Raw(x[1], x[2]) \in Contributed(x)
  /\ ov_pc = "error" => ~EntryHasFile(<<ov_s, ov_e>>)

\* --------------------------------------------------------------- C13
Strategies == {"_run_ensemble", "_run_ensemble_w_caller"}

\* C13: whenever one of the two strategies returns, also when the scoring tool
\* wrote no output and the combined-calls file was linked in its place, the
\* returned dictionary names the caller "ensemble", its vrn_file is a path
\* with a file at it and its bed_file is null or a path with a file at it; the
\* recall strategy always returns a null bed_file.
C13_ResultReferencesExist ==
  (stage \in Strategies /\ st_pc = "done") =>
    LET r == callinfo(stage, fs) IN
      /\ r.variantcaller = "ensemble"
      /\ fs[r.vrn_file].state # "absent"
      /\ r.bed_file = NullRef \/ fs[r.bed_file].state # "absent"
      /\ stage = "_run_ensemble_w_caller" => r.bed_file = NullRef

\* the scoring tool exited with 0 and left no output: the combined-calls file
\* was linked, and no callable-regions file exists
C13_Witness ==
  /\ stage = "_run_ensemble"
  /\ st_pc = "done"
  /\ decision = "produce"
  /\ fs[EnsembleVcf].state = "link"
  /\ fs[CallRegionsBed].state = "absent"
  /\ callinfo(stage, fs).bed_file = NullRef

\* ------------------------------------------------------ C15, C16, C17
\* the batch keys that have a group, and so a task
Batches == {k \in Keys : batch_groups[k] # <<>>}

\* the i-th sample carries the callinfo of batch k in front of its own call
\* results, and nothing else
HasResultOf(i, k) == heap[i].variants = <<BatchCallinfo(k)>> \o SampleData(i).variants

\* C15: when the external tool of a batch has failed, nothing is at that
\* batch's out_vcf_file, and once combine_calls_parallel has ended every other
\* batch has returned and its callinfo is in each of its member samples.
C15_FailureIsolated ==
  /\ \A k \in Keys : task[k] = "failed" => out_vcf_file[k] = "absent"
  /\ (cp_pc \in {"done", "raised"} /\ SomeFailed) =>
       \A k \in Batches :
         task[k] # "failed" =>
           /\ task[k] = "returned"
           /\ \A j \in 1..Len(batch_groups[k]) : HasResultOf(batch_groups[k][j], k)

\* C16: when combine_calls_parallel has returned and every task returned its
\* item, in whatever order: there is exactly one item per batch; each member
\* sample carries its own batch's callinfo and no other; every input sample is
\* in the output exactly once; the non-qualifying samples are unchanged and
\* close the output in their input order.
C16_OneResultPerBatchAttached ==
  (cp_pc = "done" /\ ~SomeFailed) =>
    /\ Len(processed) = Cardinality(Batches)
    /\ \A k \in Batches :
         Cardinality({j \in 1..Len(processed) : processed[j].batch_id = k}) = 1
    /\ \A i \in Qualifying : HasResultOf(i, KeyOf(i))
    /\ Len(cp_out) = Len(samples)
    /\ {cp_out[j] : j \in 1..Len(cp_out)} = 1..Len(samples)
    /\ \A i \in (1..Len(samples)) \ Qualifying : heap[i] = SampleData(i)
    /\ \A a, b \in 1..Len(cp_out) :
         (a < b /\ cp_out[a] \notin Qualifying) =>
           cp_out[b] \notin Qualifying /\ cp_out[a] < cp_out[b]

\* two batches, one of two members, whose tasks returned in the order opposite
\* to the input order of their first samples, and a non-qualifying sample
C16_Witness ==
  /\ cp_pc = "done"
  /\ ~SomeFailed
  /\ Len(processed) = 2
  /\ batch_groups[processed[1].batch_id][1] > batch_groups[processed[2].batch_id][1]
  /\ extras # <<>>

\* C17: combine_calls changes no sample: configuration, vrn_file and
\* ensemble_bed of every sample stay as they came, and its call results change
\* only in the loop of combine_calls_parallel, by the insertion of its batch's
\* callinfo in front.
C17_SamplesUnchangedByCombineCalls ==
  \A i \in 1..Len(samples) :
    /\ heap[i].variantcaller = SampleData(i).variantcaller
    /\ heap[i].vrn_file = SampleData(i).vrn_file
    /\ heap[i].ensemble_bed = SampleData(i).ensemble_bed
    /\ \/ heap[i].variants = SampleData(i).variants
       \/ /\ cp_pc \in {"attach", "done"}
          /\ i \in Qualifying
          /\ HasResultOf(i, KeyOf(i))

\* a task has set caller, vrn_file and ensemble_bed on its edata while the
\* tasks are still running
C17_Witness ==
  /\ cp_pc = "wait"
  /\ \E k \in Batches :
       /\ task[k] = "returned"
       /\ heap[edata[k]].variantcaller = "ensemble"
       /\ heap[edata[k]].vrn_file = EnsemblePath(k)
       /\ edata[k] # batch_groups[k][1]

\* ---------------------------------------------------------- C12, C14
NoVariants(k) == ~exist_variants(cc_samples[k])

\* C12: when no file of a batch holds a variant record, combine_calls runs
\* no external process at any point (no selection, no merge, no scoring or
\* recall tool, no annotation, no validation), it never enters a strategy, and
\* it returns the caller "ensemble", the path of the empty file it wrote and a
\* null bed_file.
C12_NoProcessWhenNoVariants ==
  \A k \in BatchIds :
    NoVariants(k) =>
      /\ procs[k] = <<>>
      /\ cc_pc[k] # "strategy"
      /\ cc_pc[k] = "done" =>
           /\ cc_callinfo[k] = [variantcaller |-> "ensemble",
                                vrn_file |-> EnsemblePath(k),
                                bed_file |-> NullRef]
           /\ EnsemblePath(k) \in writes[k]

\* C14: at every point of every interleaving of the calls of two batches, no
\* path has been written by both.
C14_BatchWritesDisjoint ==
  \A k1, k2 \in BatchIds : k1 # k2 => writes[k1] \cap writes[k2] = {}

====
